---- MODULE Spec2Model ----
(***************************************************************************)
(* A model of generate.py, the Sega slide generator: one run of the        *)
(* script from argument parsing to process exit.  The run is sequential;   *)
(* pc is the position in main / process_slides / compile_rom.  External    *)
(* tools (pdftoppm, ImageMagick, docker, the file system) are the          *)
(* environment: their outcome is chosen when the step that calls them     *)
(* runs.                                                                   *)
(***************************************************************************)
EXTENDS Integers, Sequences, FiniteSets, TLC

\* ------------------------------------------------------------------ bounds

\* Largest number of pages the rasterizer produces for the document.
MaxPages == 10
\* Largest page number written in a page-range suffix of the pipeline's tokens.
MaxRange == 4
\* Longest command-line token given to the Page Selector specification.
MaxTokenLen == 6

\* ------------------------------------------------------- characters, text

Digits == {"0", "1", "2", "3", "4", "5", "6", "7", "8", "9"}

\* The characters tokens of the Page Selector specification are made of.
TokenChars == {"a", "@", "-", "1", "2"}

DigitVal(c) ==
  CASE c = "0" -> 0 [] c = "1" -> 1 [] c = "2" -> 2 [] c = "3" -> 3
    [] c = "4" -> 4 [] c = "5" -> 5 [] c = "6" -> 6 [] c = "7" -> 7
    [] c = "8" -> 8 [] c = "9" -> 9

DigitChar(d) ==
  CASE d = 0 -> "0" [] d = 1 -> "1" [] d = 2 -> "2" [] d = 3 -> "3"
    [] d = 4 -> "4" [] d = 5 -> "5" [] d = 6 -> "6" [] d = 7 -> "7"
    [] d = 8 -> "8" [] d = 9 -> "9"

\* Code points of the characters that occur in page file names.
CharCode(c) ==
  CASE c = "-" -> 45 [] c = "." -> 46 [] OTHER -> 48 + DigitVal(c)

\* str(n): the decimal text of a natural number.
RECURSIVE Dec(_)
Dec(n) == IF n < 10 THEN <<DigitChar(n)>>
          ELSE Dec(n \div 10) \o <<DigitChar(n % 10)>>

\* int(text) of a string of decimal digits (leading zeros allowed).
RECURSIVE IntOf(_)
IntOf(ds) == IF ds = <<>> THEN 0
             ELSE 10 * IntOf(SubSeq(ds, 1, Len(ds) - 1)) + DigitVal(ds[Len(ds)])

\* end_page = None: no upper end of the range.
NoEndPage == -1

\* ---------------------------------------------------------- Page Selector

\* The length of the longest run of digits of tok that starts at position from.
RECURSIVE DigitRun(_, _)
DigitRun(tok, from) ==
  IF from <= Len(tok) /\ tok[from] \in Digits THEN 1 + DigitRun(tok, from + 1)
  ELSE 0

\* Whether '@(\d+)-(\d+)' matches right after the first i characters of tok.
\* \d+ is greedy and what follows it is not a digit, so each group is the
\* whole run of digits.
RangeAt(tok, i) ==
  LET a    == DigitRun(tok, i + 2)
      dash == i + 2 + a
      b    == DigitRun(tok, dash + 1)
  IN  /\ i + 1 <= Len(tok)
      /\ tok[i + 1] = "@"
      /\ a >= 1
      /\ dash <= Len(tok)
      /\ tok[dash] = "-"
      /\ b >= 1

\* The lengths of group 1 at which re.match can succeed: the match is
\* anchored at the start of the token only, text after the range is ignored.
MatchStarts(tok) == {i \in 0 .. Len(tok) : RangeAt(tok, i)}

\* re.match(r'(.*)@(\d+)-(\d+)', pdf_spec) and the assignments that follow:
\* '(.*)' is greedy, so group 1 is the longest prefix that works.
ParseSpec(tok) ==
  LET S == MatchStarts(tok) IN
  IF S # {}
  THEN LET i == CHOOSE x \in S : \A y \in S : y <= x
           a == DigitRun(tok, i + 2)
           b == DigitRun(tok, i + 3 + a)
       IN  [pdf_path   |-> SubSeq(tok, 1, i),
            start_page |-> IntOf(SubSeq(tok, i + 2, i + 1 + a)),
            end_page   |-> IntOf(SubSeq(tok, i + 3 + a, i + 2 + a + b))]
  ELSE [pdf_path |-> tok, start_page |-> 1, end_page |-> NoEndPage]

\* ------------------------------------------------------------ dithering

IMAGEMAGICK_DITHER == {"FloydSteinberg", "Riemersma"}

IMAGEMAGICK_ORDERED_DITHER == {"o2x2", "o3x3", "o4x4", "o8x8", "checks"}

DITHERING_CHOICES == IMAGEMAGICK_DITHER \cup IMAGEMAGICK_ORDERED_DITHER

\* What argparse leaves in args.dithering: the default False when the option
\* is absent, None (the const of nargs='?') when it is given without a
\* value, else one of the choices.
DitheringOptions == {"False", "None"} \cup DITHERING_CHOICES

\* A faulty variant: every explicit method is passed to -dither.
DitheringArgsAllDither(opt) ==
  IF opt \in DITHERING_CHOICES THEN <<"-dither", opt>>
  ELSE IF opt = "None" THEN <<"-dither", "FloydSteinberg">>
  ELSE <<"+dither">>

\* The if / elif / else over args.dithering in the script body.
DitheringArgs(opt) ==
  IF opt \in DITHERING_CHOICES
  THEN IF opt \in IMAGEMAGICK_DITHER THEN <<"-dither", opt>>
       ELSE <<"-ordered-dither", opt>>
  ELSE IF opt = "None" THEN <<"-dither", "FloydSteinberg">>
  ELSE <<"+dither">>

\* The image tool's argument list for one page; the input and the output
\* path stand as "<page_path>" and "PNG8:<output_path>", and the binary
\* (magick, or convert where the probe at load found no magick) as
\* "<IMAGEMAGICK_CONVERT_BINARY>": no step depends on which it is.
ConvertArgs(dargs) ==
  <<"<IMAGEMAGICK_CONVERT_BINARY>", "<page_path>", "-scale", "320x224",
    "-background", "black", "-gravity", "center", "-extent", "320x224",
    "-depth", "3">>
  \o dargs
  \o <<"-colors", "15", "PNG8:<output_path>">>

\* ------------------------------------------------------------ rasterizer

\* n in decimal, zero-padded on the left to w digits.
RECURSIVE Pad(_, _)
Pad(n, w) == IF Len(Dec(n)) >= w THEN Dec(n) ELSE <<"0">> \o Pad(n, w - 1)

\* The base name pdftoppm gives page n of a document of total pages:
\* "page-<n zero-padded to the digits of total>.png".  Only the part that
\* differs between pages is kept: "-", the digits, and the "." that follows.
PageFile(n, total) == <<"-">> \o Pad(n, Len(Dec(total))) \o <<".">>

\* The files pdftoppm leaves in pages_dir for a document of total pages.
PageFiles(total) == {PageFile(n, total) : n \in 1 .. total}

\* Python's order of str: by code point, a proper prefix first.
RECURSIVE StrLess(_, _)
StrLess(x, y) ==
  IF y = <<>> THEN FALSE
  ELSE IF x = <<>> THEN TRUE
  ELSE IF CharCode(Head(x)) # CharCode(Head(y))
       THEN CharCode(Head(x)) < CharCode(Head(y))
  ELSE StrLess(Tail(x), Tail(y))

\* A faulty variant: sorted() left out.  The names come in the reverse of
\* sorted order, one of the orders glob.glob may return them in.
GlobUnsorted(files) ==
  [k \in 1 .. Cardinality(files) |->
     CHOOSE x \in files :
       Cardinality({y \in files : StrLess(x, y)}) = k - 1]

\* sorted(glob.glob(os.path.join(pages_dir, 'page-*.png'))): the k-th name
\* is the one with k - 1 names before it.
SortedGlob(files) ==
  [k \in 1 .. Cardinality(files) |->
     CHOOSE x \in files :
       Cardinality({y \in files : StrLess(y, x)}) = k - 1]

\* ------------------------------------------------------- process_slides

\* The loop's if / elif / else: the page is neither before start_page nor,
\* when the range has an end, after end_page.
Selected(page_num, start_page, end_page) ==
  /\ ~(page_num < start_page)
  /\ ~(end_page # NoEndPage /\ page_num > end_page)

\* total_pages, the denominator of the progress line.
TotalPages(page_paths, start_page, end_page) ==
  IF end_page = NoEndPage THEN Len(page_paths)
  ELSE end_page - start_page + 1

\* A faulty variant: the count written is the one the progress line shows.
NumSlidesFromTotal(image_pointers, total_pages) == total_pages

\* num_slides=len(image_pointers) in the header template.
NumSlides(image_pointers, total_pages) == Len(image_pointers)

\* The number in 'slide_{page_num}': the page's number in the document.
SlideNumber(page_num, image_pointers) == page_num

\* ------------------------------------------------------------ the run

\* A faulty variant: the tool's exit status is not checked (check=True left out).
SubprocessUnchecked(ok, next, err) == [pc |-> next, error |-> "none"]

\* subprocess.run(check=True, ...): a non-zero exit raises
\* CalledProcessError, which nothing catches, so the run leaves the with
\* block.
Subprocess(ok, next, err) ==
  IF ok THEN [pc |-> next, error |-> "none"]
  ELSE [pc |-> "unwind", error |-> err]

\* A faulty variant: the scratch directory is removed on the success path only
\* (mkdtemp and a trailing rmtree).
TmpAfterExitOnSuccess(error) == IF error = "none" THEN "removed" ELSE "present"

\* tempfile.TemporaryDirectory as a context manager: the directory is
\* removed when the with block is left, by return or by exception.
TmpAfterExit(error) == "removed"

\* A faulty variant: the destination is opened for writing before the source.
RomAfterCopyDestFirst(artifact, rom) == IF artifact THEN "new" ELSE "partial"

\* shutil.copy(out/rom.bin, rom_path): the source is opened first, so a
\* missing artifact raises before the destination is touched.
RomAfterCopy(artifact, rom) == IF artifact THEN "new" ELSE rom

\* The files of the template directory that matter here; the skeleton always
\* holds the viewer's source.
SkeletonPaths == {"src/main.c", "src/slides.h", "res/slide_data.res"}

Skeletons == {s \in SUBSET SkeletonPaths : "src/main.c" \in s}

\* A faulty variant: files that exist in the build tree are kept.
CopyTreeKeep(tree, skeleton) ==
  [p \in SkeletonPaths |->
     IF p \in skeleton /\ tree[p] = "none" THEN "skeleton" ELSE tree[p]]

\* shutil.copytree(template_dir, app_dir, dirs_exist_ok=True): every file of
\* the skeleton is copied, over a file of the same relative path if any.
CopyTree(tree, skeleton) ==
  [p \in SkeletonPaths |-> IF p \in skeleton THEN "skeleton" ELSE tree[p]]

\* Whether compile_rom runs 'docker pull': always, whatever the local cache
\* holds.
PullAttempted(image) == TRUE

\* 'docker pull' of a tag asks the registry for the tag's manifest even when
\* a copy of the image is cached: it exits non-zero when the registry cannot
\* be reached.
PullOk(image, registry) == registry = "up"

\* ---------------------------------------------------------------- state

VARIABLES
  pdf_spec,        \* the <SLIDES.PDF> token of the command line
  dithering,       \* args.dithering
  win32,           \* sys.platform == 'win32'
  dithering_args,  \* the global the script body sets before main
  pc,              \* the position of the run
  error,           \* the exception that is propagating, "none" if none
  exit_code,       \* "running", or the process's exit status "0" / "1"
  pdf_path, start_page, end_page,
  tmp_dir,         \* the scratch directory: "absent", "present", "removed"
  pages_dir,       \* the page files in tmp_dir/pages
  page_paths, page_num, total_pages,
  resource_list, image_pointers,
  convert_calls,   \* the image tool's invocations, in order
  slides_h,        \* app/src/slides.h as written
  slide_data_res,  \* app/res/slide_data.res as written
  tree,            \* where each file of the build tree comes from
  skeleton,        \* the files the template directory held when copied
  image, registry, \* the docker image cache and the registry, as compile_rom finds them
  artifact,        \* whether app/out/rom.bin exists after the build
  rom,             \* the file at rom_path
  rom_before,      \* the file at rom_path when the run started
  calls            \* the steps taken so far, each with its outcome

vars == <<pdf_spec, dithering, win32, dithering_args, pc, error,
          exit_code, pdf_path, start_page, end_page, tmp_dir, pages_dir,
          page_paths, page_num, total_pages, resource_list, image_pointers,
          convert_calls, slides_h, slide_data_res, tree, skeleton, image,
          registry, artifact, rom, rom_before, calls>>

\* The tokens of the pipeline's runs: a bare path, and the path with every
\* range of page numbers up to MaxRange.
PipelineTokens ==
  {<<"a">>} \cup
  {<<"a", "@">> \o Dec(s) \o <<"-">> \o Dec(e) :
     s \in 0 .. MaxRange, e \in 0 .. MaxRange}

\* Every token of at most MaxTokenLen characters.
AllTokens == UNION {[1 .. k -> TokenChars] : k \in 0 .. MaxTokenLen}

\* The state of everything but the command line and the platform when the
\* script starts.
Fresh ==
  /\ dithering_args = <<>>
  /\ error = "none"
  /\ exit_code = "running"
  /\ pdf_path = <<>>
  /\ start_page = 0
  /\ end_page = NoEndPage
  /\ tmp_dir = "absent"
  /\ pages_dir = {}
  /\ page_paths = <<>>
  /\ page_num = 0
  /\ total_pages = 0
  /\ resource_list = <<>>
  /\ image_pointers = <<>>
  /\ convert_calls = <<>>
  /\ slides_h = [written |-> FALSE, image_pointers |-> <<>>, num_slides |-> 0]
  /\ slide_data_res = [written |-> FALSE, lines |-> <<>>]
  /\ tree = [p \in SkeletonPaths |-> "none"]
  /\ skeleton = {}
  /\ image = "unobserved"
  /\ registry = "unobserved"
  /\ artifact = FALSE
  /\ rom = rom_before
  /\ calls = <<>>

Init ==
  /\ pdf_spec \in PipelineTokens
  /\ dithering \in DitheringOptions
  /\ win32 \in BOOLEAN
  /\ rom_before \in {"absent", "stale"}
  /\ pc = "script"
  /\ Fresh

Log(step, page, ok) == Append(calls, [step |-> step, page |-> page, ok |-> ok])

\* ---------------------------------------------------------------- steps

\* The script body: args.dithering becomes the image tool's dithering
\* arguments, then main is called.  (The 'magick -version' probe that ran
\* when the module loaded only picks the binary's name; its failure is
\* caught and is no failure of the run.)
ScriptBody ==
  /\ pc = "script"
  /\ dithering_args' = DitheringArgs(dithering)
  /\ pc' = "select"
  /\ UNCHANGED <<pdf_spec, dithering, win32, error, exit_code,
                 pdf_path, start_page, end_page, tmp_dir, pages_dir,
                 page_paths, page_num, total_pages, resource_list,
                 image_pointers, convert_calls, slides_h, slide_data_res,
                 tree, skeleton, image, registry, artifact, rom, rom_before,
                 calls>>

\* main: the page range is split off the token.
Select ==
  /\ pc = "select"
  /\ LET r == ParseSpec(pdf_spec)
     IN  /\ pdf_path' = r.pdf_path
         /\ start_page' = r.start_page
         /\ end_page' = r.end_page
  /\ pc' = "mktemp"
  /\ UNCHANGED <<pdf_spec, dithering, win32, dithering_args, error,
                 exit_code, tmp_dir, pages_dir, page_paths, page_num,
                 total_pages, resource_list, image_pointers, convert_calls,
                 slides_h, slide_data_res, tree, skeleton, image, registry,
                 artifact, rom, rom_before, calls>>

\* main: the with block is entered, the scratch directory exists.
MakeTmp ==
  /\ pc = "mktemp"
  /\ tmp_dir' = "present"
  /\ pc' = IF win32 THEN "acl" ELSE "mkdirs"
  /\ UNCHANGED <<pdf_spec, dithering, win32, dithering_args, error,
                 exit_code, pdf_path, start_page, end_page, pages_dir,
                 page_paths, page_num, total_pages, resource_list,
                 image_pointers, convert_calls, slides_h, slide_data_res,
                 tree, skeleton, image, registry, artifact, rom, rom_before,
                 calls>>

\* main, on Windows: powershell copies the parent's ACL to the directory.
FixAcl ==
  /\ pc = "acl"
  /\ \E ok \in BOOLEAN :
       LET r == Subprocess(ok, "mkdirs", "acl")
       IN  /\ pc' = r.pc
           /\ error' = r.error
           /\ calls' = Log("acl", 0, ok)
  /\ UNCHANGED <<pdf_spec, dithering, win32, dithering_args,
                 exit_code, pdf_path, start_page, end_page, tmp_dir,
                 pages_dir, page_paths, page_num, total_pages, resource_list,
                 image_pointers, convert_calls, slides_h, slide_data_res,
                 tree, skeleton, image, registry, artifact, rom, rom_before>>

\* main: pages/, app/, app/src and app/res are made, all empty.
MkDirs ==
  /\ pc = "mkdirs"
  /\ pc' = "pdftoppm"
  /\ UNCHANGED <<pdf_spec, dithering, win32, dithering_args, error,
                 exit_code, pdf_path, start_page, end_page, tmp_dir,
                 pages_dir, page_paths, page_num, total_pages, resource_list,
                 image_pointers, convert_calls, slides_h, slide_data_res,
                 tree, skeleton, image, registry, artifact, rom, rom_before,
                 calls>>

\* process_slides: pdftoppm writes one PNG per page of the document.
Rasterize ==
  /\ pc = "pdftoppm"
  /\ \E ok \in BOOLEAN, n \in 1 .. MaxPages :
       LET r == Subprocess(ok, "glob", "pdftoppm")
       IN  /\ pc' = r.pc
           /\ error' = r.error
           /\ pages_dir' = IF ok THEN PageFiles(n) ELSE {}
           /\ calls' = Log("pdftoppm", 0, ok)
  /\ UNCHANGED <<pdf_spec, dithering, win32, dithering_args,
                 exit_code, pdf_path, start_page, end_page, tmp_dir,
                 page_paths, page_num, total_pages, resource_list,
                 image_pointers, convert_calls, slides_h, slide_data_res,
                 tree, skeleton, image, registry, artifact, rom, rom_before>>

\* process_slides: the page files are listed in sorted order and the loop's
\* variables are set.
ListPages ==
  /\ pc = "glob"
  /\ LET sorted == SortedGlob(pages_dir)
     IN  /\ page_paths' = sorted
         /\ total_pages' = TotalPages(sorted, start_page, end_page)
  /\ resource_list' = <<>>
  /\ image_pointers' = <<>>
  /\ page_num' = 1
  /\ pc' = "loop"
  /\ UNCHANGED <<pdf_spec, dithering, win32, dithering_args, error,
                 exit_code, pdf_path, start_page, end_page, tmp_dir,
                 pages_dir, convert_calls, slides_h, slide_data_res, tree,
                 skeleton, image, registry, artifact, rom, rom_before, calls>>

\* process_slides: one iteration of the loop over page_paths.  A page
\* outside the range is passed over; a page inside it is converted by the
\* image tool and then entered in both lists.
LoopPage ==
  /\ pc = "loop"
  /\ page_num <= Len(page_paths)
  /\ LET page_filename == page_paths[page_num] IN
     \/ /\ ~Selected(page_num, start_page, end_page)
        /\ page_num' = page_num + 1
        /\ UNCHANGED <<pc, error, resource_list, image_pointers,
                       convert_calls, calls>>
     \/ /\ Selected(page_num, start_page, end_page)
        /\ \E ok \in BOOLEAN :
             LET r == Subprocess(ok, "loop", "convert")
                 n == SlideNumber(page_num, image_pointers)
             IN  /\ pc' = r.pc
                 /\ error' = r.error
                 /\ convert_calls' =
                      Append(convert_calls,
                             [input  |-> page_filename,
                              output |-> page_filename,
                              args   |-> ConvertArgs(dithering_args)])
                 /\ calls' = Log("convert", page_num, ok)
                 /\ IF r.error = "none"
                    THEN /\ resource_list' =
                              Append(resource_list,
                                     [slide |-> n, file |-> page_filename])
                         /\ image_pointers' = Append(image_pointers, n)
                         /\ page_num' = page_num + 1
                    ELSE UNCHANGED <<resource_list, image_pointers, page_num>>
  /\ UNCHANGED <<pdf_spec, dithering, win32, dithering_args,
                 exit_code, pdf_path, start_page, end_page, tmp_dir,
                 pages_dir, page_paths, total_pages, slides_h, slide_data_res,
                 tree, skeleton, image, registry, artifact, rom, rom_before>>

\* process_slides: slides.h is written from the pointer list once the loop
\* is over.
WriteSlidesH ==
  /\ pc = "loop"
  /\ page_num > Len(page_paths)
  /\ slides_h' = [written |-> TRUE,
                  image_pointers |-> image_pointers,
                  num_slides |-> NumSlides(image_pointers, total_pages)]
  /\ tree' = [tree EXCEPT !["src/slides.h"] = "generated"]
  /\ calls' = Log("write_slides_h", 0, TRUE)
  /\ pc' = "write_res"
  /\ UNCHANGED <<pdf_spec, dithering, win32, dithering_args, error,
                 exit_code, pdf_path, start_page, end_page, tmp_dir,
                 pages_dir, page_paths, page_num, total_pages, resource_list,
                 image_pointers, convert_calls, slide_data_res, skeleton,
                 image, registry, artifact, rom, rom_before>>

\* process_slides: slide_data.res is written from the declaration list.
WriteRes ==
  /\ pc = "write_res"
  /\ slide_data_res' = [written |-> TRUE, lines |-> resource_list]
  /\ tree' = [tree EXCEPT !["res/slide_data.res"] = "generated"]
  /\ calls' = Log("write_res", 0, TRUE)
  /\ pc' = "copy_sources"
  /\ UNCHANGED <<pdf_spec, dithering, win32, dithering_args, error,
                 exit_code, pdf_path, start_page, end_page, tmp_dir,
                 pages_dir, page_paths, page_num, total_pages, resource_list,
                 image_pointers, convert_calls, slides_h, skeleton, image,
                 registry, artifact, rom, rom_before>>

\* copy_sources: the template directory is copied into the build tree.
CopySources ==
  /\ pc = "copy_sources"
  /\ \E ok \in BOOLEAN, s \in Skeletons :
       /\ skeleton' = s
       /\ tree' = IF ok THEN CopyTree(tree, s) ELSE tree
       /\ pc' = IF ok THEN "docker_pull" ELSE "unwind"
       /\ error' = IF ok THEN "none" ELSE "copytree"
       /\ calls' = Log("copytree", 0, ok)
  /\ UNCHANGED <<pdf_spec, dithering, win32, dithering_args,
                 exit_code, pdf_path, start_page, end_page, tmp_dir,
                 pages_dir, page_paths, page_num, total_pages, resource_list,
                 image_pointers, convert_calls, slides_h, slide_data_res,
                 image, registry, artifact, rom, rom_before>>

\* compile_rom: 'docker pull' of the SGDK image.
DockerPull ==
  /\ pc = "docker_pull"
  /\ \E img \in {"cached", "missing"}, reg \in {"up", "down"} :
       /\ image' = img
       /\ registry' = reg
       /\ IF PullAttempted(img)
          THEN LET ok == PullOk(img, reg)
                   r  == Subprocess(ok, "docker_run", "docker_pull")
               IN  /\ pc' = r.pc
                   /\ error' = r.error
                   /\ calls' = Log("docker_pull", 0, ok)
          ELSE /\ pc' = "docker_run"
               /\ UNCHANGED <<error, calls>>
  /\ UNCHANGED <<pdf_spec, dithering, win32, dithering_args,
                 exit_code, pdf_path, start_page, end_page, tmp_dir,
                 pages_dir, page_paths, page_num, total_pages, resource_list,
                 image_pointers, convert_calls, slides_h, slide_data_res,
                 tree, skeleton, artifact, rom, rom_before>>

\* compile_rom: 'docker run' of the SGDK image on the build tree.  A build
\* that exits with status 0 may still leave no out/rom.bin.
DockerRun ==
  /\ pc = "docker_run"
  /\ \E ok \in BOOLEAN, built \in BOOLEAN :
       LET r == Subprocess(ok, "copy_rom", "docker_run")
       IN  /\ pc' = r.pc
           /\ error' = r.error
           /\ artifact' = (ok /\ built)
           /\ calls' = Log("docker_run", 0, ok)
  /\ UNCHANGED <<pdf_spec, dithering, win32, dithering_args,
                 exit_code, pdf_path, start_page, end_page, tmp_dir,
                 pages_dir, page_paths, page_num, total_pages, resource_list,
                 image_pointers, convert_calls, slides_h, slide_data_res,
                 tree, skeleton, image, registry, rom, rom_before>>

\* compile_rom: out/rom.bin is copied to rom_path; FileNotFoundError when
\* the build left none.
CopyRom ==
  /\ pc = "copy_rom"
  /\ rom' = RomAfterCopy(artifact, rom)
  /\ pc' = IF artifact THEN "chmod" ELSE "unwind"
  /\ error' = IF artifact THEN "none" ELSE "artifact_missing"
  /\ calls' = Log("copy", 0, artifact)
  /\ UNCHANGED <<pdf_spec, dithering, win32, dithering_args,
                 exit_code, pdf_path, start_page, end_page, tmp_dir,
                 pages_dir, page_paths, page_num, total_pages, resource_list,
                 image_pointers, convert_calls, slides_h, slide_data_res,
                 tree, skeleton, image, registry, artifact, rom_before>>

\* compile_rom: the ROM's mode is set to 0644; back in main, 'ls' follows
\* except on Windows.
Chmod ==
  /\ pc = "chmod"
  /\ calls' = Log("chmod", 0, TRUE)
  /\ pc' = IF win32 THEN "unwind" ELSE "ls"
  /\ UNCHANGED <<pdf_spec, dithering, win32, dithering_args, error,
                 exit_code, pdf_path, start_page, end_page, tmp_dir,
                 pages_dir, page_paths, page_num, total_pages, resource_list,
                 image_pointers, convert_calls, slides_h, slide_data_res,
                 tree, skeleton, image, registry, artifact, rom, rom_before>>

\* main: 'ls -sh rom_path', run without check: its exit status is ignored.
Ls ==
  /\ pc = "ls"
  /\ \E ok \in BOOLEAN : calls' = Log("ls", 0, ok)
  /\ pc' = "unwind"
  /\ UNCHANGED <<pdf_spec, dithering, win32, dithering_args, error,
                 exit_code, pdf_path, start_page, end_page, tmp_dir,
                 pages_dir, page_paths, page_num, total_pages, resource_list,
                 image_pointers, convert_calls, slides_h, slide_data_res,
                 tree, skeleton, image, registry, artifact, rom, rom_before>>

\* main: the with block is left, normally or by the exception, and the
\* process ends: sys.exit(0) after main returned, status 1 (the traceback
\* of the uncaught exception) otherwise.  The variables that describe the
\* scratch directory keep what it held last.
LeaveWith ==
  /\ pc = "unwind"
  /\ tmp_dir' = TmpAfterExit(error)
  /\ pc' = IF error = "none" THEN "done" ELSE "failed"
  /\ exit_code' = IF error = "none" THEN "0" ELSE "1"
  /\ UNCHANGED <<pdf_spec, dithering, win32, dithering_args, error,
                 pdf_path, start_page, end_page, pages_dir, page_paths,
                 page_num, total_pages, resource_list, image_pointers,
                 convert_calls, slides_h, slide_data_res, tree, skeleton,
                 image, registry, artifact, rom, rom_before, calls>>

Next ==
  \/ ScriptBody
  \/ Select
  \/ MakeTmp
  \/ FixAcl
  \/ MkDirs
  \/ Rasterize
  \/ ListPages
  \/ LoopPage
  \/ WriteSlidesH
  \/ WriteRes
  \/ CopySources
  \/ DockerPull
  \/ DockerRun
  \/ CopyRom
  \/ Chmod
  \/ Ls
  \/ LeaveWith

Spec == Init /\ [][Next]_vars

\* The Page Selector alone, on every token of at most MaxTokenLen characters.
SelectorInit ==
  /\ pdf_spec \in AllTokens
  /\ dithering = "False"
  /\ win32 = FALSE
  /\ rom_before = "absent"
  /\ pc = "select"
  /\ Fresh

SelectorNext == Select

SelectorSpec == SelectorInit /\ [][SelectorNext]_vars

\* ------------------------------------------------------------ properties

\* process_slides has written both generated files.
ManifestWritten == slides_h.written /\ slide_data_res.written

\* The pages of the document that lie in [start_page, end_page].
SelectedPages ==
  {p \in 1 .. Len(page_paths) :
     p >= start_page /\ (end_page = NoEndPage \/ p <= end_page)}

\* The first page of the selection, max(start_page, 1).
FirstSelected == IF start_page < 1 THEN 1 ELSE start_page

C2_CountsAgree ==
  ManifestWritten =>
    /\ Len(slide_data_res.lines) = Cardinality(SelectedPages)
    /\ Len(slides_h.image_pointers) = Cardinality(SelectedPages)
    /\ slides_h.num_slides = Cardinality(SelectedPages)
    /\ \A i \in 1 .. Len(slides_h.image_pointers) :
         slide_data_res.lines[i].slide = slides_h.image_pointers[i]

\* C2's case: a range that starts after page 1 and ends past the last page.
C2_Witness ==
  /\ ManifestWritten
  /\ start_page >= 2
  /\ end_page > Len(page_paths)
  /\ slides_h.num_slides >= 2

\* The token was path@start-end with start > end and has been parsed.
ReversedRange ==
  /\ pc \notin {"script", "select"}
  /\ end_page # NoEndPage
  /\ start_page > end_page

\* C3: a token whose range has start > end fails at the Page Selector: the
\* scratch directory is never created, no tool is invoked and the run does
\* not succeed.
C3_ReversedRangeFailsEarly ==
  ReversedRange =>
    /\ tmp_dir = "absent"
    /\ calls = <<>>
    /\ pc # "done"

\* The run ended because the build failed or left no artifact.
BuildFailed == pc = "failed" /\ error \in {"docker_run", "artifact_missing"}

\* C4 as amended: when the toolchain exits non-zero, or succeeds and leaves
\* no out/rom.bin, the run fails with a non-zero exit and the output path
\* holds what it held before the run (no file if there was none); rom_path
\* is written only after a successful build that left the artifact.
C4_DestinationUntouched ==
  /\ BuildFailed => exit_code = "1" /\ rom = rom_before
  /\ rom # rom_before =>
       /\ artifact
       /\ \E i \in 1 .. Len(calls) :
            calls[i].step = "docker_run" /\ calls[i].ok

\* C4 as stated: after such a failure no file exists at the output path.
C4_NoFileAtDestination ==
  BuildFailed => exit_code = "1" /\ rom = "absent"

\* C4's case: the build succeeded without an artifact, over an older ROM.
C4_Witness ==
  /\ BuildFailed
  /\ error = "artifact_missing"
  /\ rom_before = "stale"
  /\ rom = "stale"

\* C5: no terminal state has the scratch directory: while it exists the run
\* can take another step, and a run that has ended has removed it.
C5_ScratchRemoved ==
  /\ tmp_dir = "present" => ENABLED Next
  /\ pc \in {"done", "failed"} => tmp_dir = "removed"

\* C5's case: the run ended on an image-tool failure.
C5_Witness ==
  /\ pc = "failed"
  /\ error = "convert"
  /\ tmp_dir = "removed"

\* C6: with the image cached and the registry unreachable the pull does not
\* abort the run.
C6_CachedImageToleratesOffline ==
  (image = "cached" /\ registry = "down") => error # "docker_pull"

\* The dithering mode the claim gives for each value of --dithering.
C7_Mode(opt) ==
  CASE opt = "False" -> <<"+dither">>
    [] opt = "None" -> <<"-dither", "FloydSteinberg">>
    [] opt \in {"FloydSteinberg", "Riemersma"} -> <<"-dither", opt>>
    [] opt \in {"o2x2", "o3x3", "o4x4", "o8x8", "checks"} ->
         <<"-ordered-dither", opt>>

\* C7: every image-tool invocation carries exactly one dithering mode, the
\* one its --dithering value calls for, between '-depth 3' and '-colors 15'.
C7_OneDitheringMode ==
  \A c \in 1 .. Len(convert_calls) :
    LET a == convert_calls[c].args
        m == C7_Mode(dithering)
        flags == {i \in 1 .. Len(a) :
                    a[i] \in {"-dither", "+dither", "-ordered-dither"}}
    IN  /\ Cardinality(flags) = 1
        /\ \E d \in 1 .. Len(a) :
             /\ a[d] = "-depth"
             /\ a[d + 1] = "3"
             /\ SubSeq(a, d + 2, d + 1 + Len(m)) = m
             /\ a[d + 2 + Len(m)] = "-colors"
             /\ a[d + 3 + Len(m)] = "15"

\* C7's case: two pages converted with an ordered pattern.
C7_Witness ==
  /\ Len(convert_calls) >= 2
  /\ dithering = "o4x4"

\* The place of each step in the pipeline's order.
C8_Rank(step) ==
  CASE step = "acl" -> 0
    [] step = "pdftoppm" -> 1
    [] step = "convert" -> 2
    [] step = "write_slides_h" -> 3
    [] step = "write_res" -> 4
    [] step = "copytree" -> 5
    [] step = "docker_pull" -> 6
    [] step = "docker_run" -> 7
    [] step = "copy" -> 8
    [] step = "chmod" -> 9
    [] step = "ls" -> 10

\* C8: the steps run in the pipeline's order, each at most once (the image
\* tool once per page, pages ascending); a failing step is the last step
\* taken, leaves the run failing, and nothing of the later stages exists.
C8_LinearNoRetry ==
  /\ \A i, j \in 1 .. Len(calls) :
       i < j =>
         \/ C8_Rank(calls[i].step) < C8_Rank(calls[j].step)
         \/ /\ calls[i].step = "convert"
            /\ calls[j].step = "convert"
            /\ calls[i].page < calls[j].page
  /\ \A i \in 1 .. Len(calls) :
       (~calls[i].ok /\ calls[i].step # "ls") =>
         /\ i = Len(calls)
         /\ pc \in {"unwind", "failed"}
         /\ error # "none"
         /\ exit_code # "0"
         /\ rom = rom_before
         /\ C8_Rank(calls[i].step) < 3 => ~slides_h.written
         /\ C8_Rank(calls[i].step) < 4 => ~slide_data_res.written
         /\ C8_Rank(calls[i].step) < 5 => skeleton = {} \/ calls[i].step = "copytree"
  /\ pc = "failed" => exit_code = "1" /\ error # "none"

\* C8's case: the image tool failed on a page after converting others.
C8_Witness ==
  /\ pc = "failed"
  /\ error = "convert"
  /\ Len(convert_calls) >= 3
  /\ ~slides_h.written

\* The places of '@' and '-' at which tok as a whole reads
\* <path>@<digits>-<digits>.
C9_WholeForms(tok) ==
  {ij \in (1 .. Len(tok)) \X (1 .. Len(tok)) :
     /\ tok[ij[1]] = "@"
     /\ tok[ij[2]] = "-"
     /\ ij[1] + 1 < ij[2]
     /\ ij[2] < Len(tok)
     /\ \A k \in (ij[1] + 1) .. (ij[2] - 1) : tok[k] \in Digits
     /\ \A k \in (ij[2] + 1) .. Len(tok) : tok[k] \in Digits}

\* C9: the Page Selector's result is the reference's: a token that as a
\* whole is <path>@<start>-<end> with start <= end gives path, start, end; a
\* token that is not of that form as a whole gives itself, 1, unbounded.
C9_SelectorMatchesWholeToken ==
  pc = "mktemp" =>
    /\ \A ij \in C9_WholeForms(pdf_spec) :
         LET s == IntOf(SubSeq(pdf_spec, ij[1] + 1, ij[2] - 1))
             e == IntOf(SubSeq(pdf_spec, ij[2] + 1, Len(pdf_spec)))
         IN  s <= e =>
               /\ pdf_path = SubSeq(pdf_spec, 1, ij[1] - 1)
               /\ start_page = s
               /\ end_page = e
    /\ C9_WholeForms(pdf_spec) = {} =>
         /\ pdf_path = pdf_spec
         /\ start_page = 1
         /\ end_page = NoEndPage

\* The build tree has reached the toolchain.
HandedToBuild == \E i \in 1 .. Len(calls) : calls[i].step = "docker_run"

\* C10 as amended: slides.h and slide_data.res are written BEFORE the
\* skeleton is copied, and the copy overwrites: in the tree the toolchain
\* gets, each of the two files is the generated one only if the skeleton has
\* no file at that path, and the skeleton's otherwise.
C10_SkeletonOverGenerated ==
  /\ \A i, j \in 1 .. Len(calls) :
       (calls[i].step \in {"write_slides_h", "write_res"}
          /\ calls[j].step = "copytree") => i < j
  /\ HandedToBuild =>
       \A p \in {"src/slides.h", "res/slide_data.res"} :
         tree[p] = IF p \in skeleton THEN "skeleton" ELSE "generated"

\* C10 as stated: the skeleton is copied first and the two files the
\* toolchain gets are the generated ones, whatever the skeleton holds.
C10_GeneratedOverSkeleton ==
  /\ \A i, j \in 1 .. Len(calls) :
       (calls[i].step \in {"write_slides_h", "write_res"}
          /\ calls[j].step = "copytree") => j < i
  /\ HandedToBuild =>
       \A p \in {"src/slides.h", "res/slide_data.res"} :
         tree[p] = "generated"

\* C10's case: a skeleton with its own slides.h reached the toolchain.
C10_Witness ==
  /\ HandedToBuild
  /\ "src/slides.h" \in skeleton
  /\ tree["src/slides.h"] = "skeleton"
  /\ tree["res/slide_data.res"] = "generated"

====
